---- MODULE Spec2Model ----
(***************************************************************************)
(* Balance chart of Rex: the curve builder and the reveal animation of     *)
(* chart_ui (src/src/chart_page/chart_ui.rs) driven by the redraw loop of  *)
(* start_app (src/src/page_handler/ui_handler.rs).                         *)
(*                                                                         *)
(* Dates are day numbers (NaiveDate compared and advanced by whole days).  *)
(* The f64 quantities of the reveal cursor (loop_remaining, render_size,   *)
(* to_loop) are kept exactly, as integers in units of 1/Scale day: every   *)
(* factor of the render_size ladder is a multiple of 1/1000.               *)
(***************************************************************************)
EXTENDS Integers, Sequences, FiniteSets, TLC

\* ---------------------------------------------------------------- bounds
MaxRows == 3
MaxDay == 3
\* size of the roster the palette is checked with
MaxMethods == 8
\* number of status texts the two forms keep in the model
MaxStatus == 1

\* ------------------------------------------------------------- constants
\* 1 day in cursor units (thousandths of a day)
Scale == 1000
\* NaiveDate::from_ymd_opt(2040, 1, 1), as a day number counted from 01-01-2024
DefaultNextDate == 5844

\* get_all_tx_methods(conn): the roster, fixed for a draw
all_tx_methods == <<"Cash", "Bank">>
NumMethods == Len(all_tx_methods)

\* the dates a snapshot row may carry: the last MaxDay + 1 days up to and
\* including 01-01-2040 (the walker depends on differences of dates only,
\* except for its comparison with DefaultNextDate)
Days == (DefaultNextDate - MaxDay)..DefaultNextDate
\* the per-method running balances a snapshot row may carry
BalanceRows == {<<100, -20>>, <<150, 0>>}

\* Option<f64>
None == [some |-> FALSE, val |-> 0]
Some(v) == [some |-> TRUE, val |-> v]

\* a field of a snapshot row that NaiveDate::parse_from_str, or parse::<f64>,
\* rejects: .unwrap() on it panics
Unparseable == -1
parses(v) == v # Unparseable

\* IndexedData::new_modes: the positions of the scope selector
chart_mode_titles == <<"Monthly", "All Time">>
\* first day of the period the Monthly scope shows
PeriodStart == DefaultNextDate - MaxDay + 1

VARIABLES
    page,                    \* CurrentUi
    chart_modes,             \* index of the selected scope
    db_txs,                  \* dates of all rows of the store, in row order
    db_balance,              \* balances of all rows of the store
    all_txs,                 \* dates of the snapshot rows, in row order
    all_balance,             \* balances of the snapshot rows, one per method
    chart_activated_methods, \* method name -> shown on the chart
    chart_index,             \* the host's reveal cursor (loop_remaining in chart_ui)
    pc,                      \* position of the host loop / of chart_ui
    datasets,                \* per method, the points (x, y) built by this draw
    last_balances,
    lowest_balance,
    highest_balance,
    date_labels,
    current_axis,
    checking_date,
    to_add_again,
    data_num,
    to_loop,
    labels,                  \* the 11 gridline values, in hundredths
    final_dataset,           \* what the chart widget was given: name, colour, data
    x_bounds,                \* bounds of the x axis given to the chart
    y_bounds,                \* padded lowest/highest balance, in hundredths
    mode_selection_tab,      \* the scope the Modes tab of the frame shows
    tx_tab,                  \* AddTxTab: the selected field of the add-transaction page
    transfer_tab,            \* TransferTab: the selected field of the transfer page
    add_tx_data,             \* TxData of the add-transaction page
    transfer_data,           \* TxData of the transfer page
    key                      \* KeyEvent code the handler was built with

ledger == <<all_txs, all_balance, chart_activated_methods>>
walk == <<datasets, last_balances, lowest_balance, highest_balance, date_labels,
          current_axis, checking_date, to_add_again, data_num, to_loop>>
frame == <<labels, final_dataset, x_bounds, y_bounds, mode_selection_tab>>
forms == <<tx_tab, transfer_tab, add_tx_data, transfer_data>>
host == <<page, chart_modes, db_txs, db_balance, forms, key, key>>
vars == <<host, ledger, chart_index, pc, walk, frame>>

\* ------------------------------------------------------------- the forms
\* TxData::new(): no field edited, no status recorded
TxDataNew == [edited |-> FALSE, tx_status |-> <<>>]
\* start_app: the forms before any key
FreshForms ==
    /\ tx_tab = "Nothing"
    /\ transfer_tab = "Nothing"
    /\ add_tx_data = TxDataNew
    /\ transfer_data = TxDataNew
    /\ key = "Null"

\* ------------------------------------------------------------ the inputs
IsSorted(s) == \A i \in 1..(Len(s) - 1) : s[i] <= s[i + 1]

DateSeqs == UNION {[1..n -> Days] : n \in 0..MaxRows}
\* every row is a transaction, so it moves the running balances of the row before
BalanceSeqs(n) ==
    {b \in [1..n -> BalanceRows] : \A i \in 1..(n - 1) : b[i] # b[i + 1]}

\* chart_data.get_data: the rows of the store that fall in the selected scope
in_scope(date, mode) == chart_mode_titles[mode + 1] = "All Time" \/ date >= PeriodStart
get_data(rows, mode) ==
    LET skipped == Cardinality({i \in 1..Len(db_txs) : ~in_scope(db_txs[i], mode)})
    IN SubSeq(rows, skipped + 1, Len(rows))

\* IndexedData::next / IndexedData::previous
next_index(i) == (i + 1) % Len(chart_mode_titles)
previous_index(i) == (i + Len(chart_mode_titles) - 1) % Len(chart_mode_titles)

\* chart_data.get_all_dates: the dates that carry a snapshot row
all_dates == {all_txs[i] : i \in 1..Len(all_txs)}

final_date == all_txs[Len(all_txs)]
first_date == all_txs[1]
\* final_date.signed_duration_since(checking_date).num_days()
total_loop == final_date - first_date

\* ------------------------------------------------------- RevealScheduler
\* the render_size ladder, in 1/Scale day
render_size_off_by_one(t) ==
    IF t > 4000 THEN t * 7
    ELSE IF t > 2000 THEN t * 5
    ELSE IF t > 1000 THEN t * 4
    ELSE IF t > 500 THEN t * 3
    ELSE IF t >= 360 THEN t * 4
    ELSE IF t > 200 THEN t * 2
    ELSE IF t < 50 THEN t * 20
    ELSE Scale
render_size(t) ==
    IF t > 4000 THEN t * 7
    ELSE IF t > 2000 THEN t * 5
    ELSE IF t > 1000 THEN t * 4
    ELSE IF t > 500 THEN t * 3
    ELSE IF t > 360 THEN t * 4
    ELSE IF t > 200 THEN t * 2
    ELSE IF t < 50 THEN t * 20
    ELSE Scale

\* the update of loop_remaining at the start of a draw of a non-empty ledger
update_cursor_first_off(cur, t) ==
    IF ~cur.some THEN cur
    ELSE IF cur.val = 0
         THEN Some(t * Scale - render_size(t))
         ELSE IF cur.val - render_size(t) > 0
              THEN Some(cur.val - render_size(t))
              ELSE None
update_cursor_no_clamp(cur, t) ==
    IF ~cur.some THEN cur
    ELSE IF cur.val = 0
         THEN IF t * Scale > render_size(t)
              THEN Some(t * Scale - render_size(t))
              ELSE None
         ELSE Some(cur.val - render_size(t))
update_cursor_stuck(cur, t) ==
    IF ~cur.some THEN cur
    ELSE IF cur.val = 0
         THEN IF t * Scale > render_size(t)
              THEN Some(t * Scale - render_size(t))
              ELSE None
         ELSE IF cur.val - render_size(t) > 0
              THEN Some(cur.val)
              ELSE None
update_cursor_rearm(cur, t) ==
    IF ~cur.some \/ cur.val = 0
    THEN IF t * Scale > render_size(t)
         THEN Some(t * Scale - render_size(t))
         ELSE None
    ELSE IF cur.val - render_size(t) > 0
         THEN Some(cur.val - render_size(t))
         ELSE None
update_cursor(cur, t) ==
    IF ~cur.some THEN cur
    ELSE IF cur.val = 0
         THEN IF t * Scale > render_size(t)
              THEN Some(t * Scale - render_size(t))
              ELSE None
         ELSE IF cur.val - render_size(t) > 0
              THEN Some(cur.val - render_size(t))
              ELSE None

\* ------------------------------------------------------- ExtremaTracker
\* highest/lowest after the methods 1..k of a row have been looked at
RECURSIVE track_extrema_all(_, _, _, _)
track_extrema_all(lohi, bals, act, k) ==
    IF k = 0 THEN lohi
    ELSE LET prev == track_extrema_all(lohi, bals, act, k - 1)
             b == bals[k]
         IN IF b > prev.hi THEN [prev EXCEPT !.hi = b]
            ELSE IF b < prev.lo THEN [prev EXCEPT !.lo = b]
            ELSE prev
RECURSIVE track_extrema_no_zero(_, _, _, _)
track_extrema_no_zero(lohi, bals, act, k) ==
    IF k = 0 THEN lohi
    ELSE LET prev == track_extrema_no_zero(lohi, bals, act, k - 1)
             b == bals[k]
         IN IF ~act[all_tx_methods[k]] THEN prev
            ELSE [lo |-> IF prev.lo = 0 \/ b < prev.lo THEN b ELSE prev.lo,
                  hi |-> IF prev.hi = 0 \/ b > prev.hi THEN b ELSE prev.hi]
RECURSIVE track_extrema(_, _, _, _)
track_extrema(lohi, bals, act, k) ==
    IF k = 0 THEN lohi
    ELSE LET prev == track_extrema(lohi, bals, act, k - 1)
             b == bals[k]
         IN IF ~act[all_tx_methods[k]] THEN prev
            ELSE IF b > prev.hi THEN [prev EXCEPT !.hi = b]
            ELSE IF b < prev.lo THEN [prev EXCEPT !.lo = b]
            ELSE prev

\* --------------------------------------------------------- CurveBuilder
ReplaceLast(s, e) == [s EXCEPT ![Len(s)] = e]

\* the points of one method after a snapshot row
push_row_first_only(ds, m, again, axis, bal) ==
    IF again /\ m = 1
    THEN ReplaceLast(ds[m], <<ds[m][Len(ds[m])][1], bal>>)
    ELSE IF m <= Len(ds) THEN Append(ds[m], <<axis, bal>>) ELSE <<<<axis, bal>>>>
push_row_no_merge(ds, m, again, axis, bal) ==
    IF m <= Len(ds) THEN Append(ds[m], <<axis, bal>>) ELSE <<<<axis, bal>>>>
push_row_keep_first(ds, m, again, axis, bal) ==
    IF again
    THEN ds[m]
    ELSE IF m <= Len(ds) THEN Append(ds[m], <<axis, bal>>) ELSE <<<<axis, bal>>>>
push_row(ds, m, again, axis, bal) ==
    IF again
    THEN ReplaceLast(ds[m], <<ds[m][Len(ds[m])][1], bal>>)
    ELSE IF m <= Len(ds) THEN Append(ds[m], <<axis, bal>>) ELSE <<<<axis, bal>>>>

\* the points of one method after a day without a snapshot row
push_carry_zero(ds, m, axis, last) == Append(ds[m], <<axis, 0>>)
push_carry(ds, m, axis, last) == Append(ds[m], <<axis, last[m]>>)

\* the end of one iteration of the walker: the day budget, then the last date
loop_exit_early(again, tl, cd, lbls) ==
    IF ~again /\ tl.some /\ tl.val - Scale <= 0
    THEN [brk |-> TRUE, to_loop |-> tl, date_labels |-> <<lbls[1], cd>>]
    ELSE [brk |-> cd >= final_date,
          to_loop |-> IF ~again /\ tl.some THEN Some(tl.val - Scale) ELSE tl,
          date_labels |-> lbls]
loop_exit_mid_merge(again, tl, cd, lbls) ==
    IF tl.some /\ tl.val - Scale <= 0
    THEN [brk |-> TRUE, to_loop |-> tl, date_labels |-> <<lbls[1], cd>>]
    ELSE [brk |-> cd >= final_date + 1,
          to_loop |-> IF tl.some THEN Some(tl.val - Scale) ELSE tl,
          date_labels |-> lbls]
loop_exit_no_pop(again, tl, cd, lbls) ==
    IF ~again /\ tl.some /\ tl.val - Scale <= 0
    THEN [brk |-> TRUE, to_loop |-> tl, date_labels |-> Append(lbls, cd)]
    ELSE [brk |-> cd >= final_date + 1,
          to_loop |-> IF ~again /\ tl.some THEN Some(tl.val - Scale) ELSE tl,
          date_labels |-> lbls]
loop_exit(again, tl, cd, lbls) ==
    IF ~again /\ tl.some /\ tl.val - Scale <= 0
    THEN [brk |-> TRUE, to_loop |-> tl, date_labels |-> <<lbls[1], cd>>]
    ELSE [brk |-> cd >= final_date + 1,
          to_loop |-> IF ~again /\ tl.some THEN Some(tl.val - Scale) ELSE tl,
          date_labels |-> lbls]

\* ------------------------------------------------------------ AxisScaler
\* highest += highest * 10 / 100, in hundredths
pad_high_unpadded(h) == h * 100
pad_high(h) == h * 100 + h * 10
pad_low(l) == l * 100 - l * 10

\* the gridline values: the padded low, then ten additions of diff
\* (to_add after i additions of diff is low + i * diff)
grid_labels_skip_first(low, diff, n) == [i \in 1..(n + 1) |-> low + i * diff]
grid_labels(low, diff, n) == [i \in 1..(n + 1) |-> low + (i - 1) * diff]

\* ---------------------------------------------------------- SeriesPalette
color_list == <<"Cyan", "Green", "Orange", "Pink", "Purple", "Red">>
FallbackColor == "Yellow"

\* final_dataset and the colours left after the methods 1..k of a roster
RECURSIVE render_roster_eager(_, _, _, _)
render_roster_eager(roster, ds, act, k) ==
    IF k = 0 THEN [out |-> <<>>, colors |-> color_list]
    ELSE LET prev == render_roster_eager(roster, ds, act, k - 1)
             cl == IF prev.colors = <<>> THEN <<FallbackColor>> ELSE prev.colors
         IN IF ~act[roster[k]]
            THEN [out |-> prev.out, colors |-> SubSeq(cl, 1, Len(cl) - 1)]
            ELSE [out |-> Append(prev.out,
                                 [name |-> roster[k],
                                  color |-> cl[Len(cl)],
                                  data |-> ds[k]]),
                  colors |-> SubSeq(cl, 1, Len(cl) - 1)]
RECURSIVE render_roster(_, _, _, _)
render_roster(roster, ds, act, k) ==
    IF k = 0 THEN [out |-> <<>>, colors |-> color_list]
    ELSE LET prev == render_roster(roster, ds, act, k - 1)
             cl == IF prev.colors = <<>> THEN <<FallbackColor>> ELSE prev.colors
         IN IF ~act[roster[k]]
            THEN [out |-> prev.out, colors |-> cl]
            ELSE [out |-> Append(prev.out,
                                 [name |-> roster[k],
                                  color |-> cl[Len(cl)],
                                  data |-> ds[k]]),
                  colors |-> SubSeq(cl, 1, Len(cl) - 1)]

\* the same for the roster of the draw
render_datasets(ds, act, k) == render_roster(all_tx_methods, ds, act, k)

\* --------------------------------------------------------------- actions
Init ==
    /\ page = "Initial"
    /\ chart_modes = 0
    /\ db_txs \in {d \in DateSeqs : IsSorted(d)}
    /\ db_balance \in BalanceSeqs(Len(db_txs))
    /\ all_txs = get_data(db_txs, chart_modes)
    /\ all_balance = get_data(db_balance, chart_modes)
    /\ chart_activated_methods \in
           [{all_tx_methods[i] : i \in 1..NumMethods} -> BOOLEAN]
    /\ chart_index = None
    /\ pc = "read"
    /\ datasets = <<>>
    /\ last_balances = <<>>
    /\ lowest_balance = 0
    /\ highest_balance = 0
    /\ date_labels = <<>>
    /\ current_axis = 0
    /\ checking_date = DefaultNextDate
    /\ to_add_again = FALSE
    /\ data_num = 0
    /\ to_loop = None
    /\ labels = <<>>
    /\ final_dataset = <<>>
    /\ x_bounds = <<0, 0>>
    /\ y_bounds = <<0, 0>>
    /\ mode_selection_tab = 0
    /\ FreshForms

\* start_app: terminal.draw calls chart_ui for CurrentUi::Chart only
draws_chart_any_page(p) == TRUE
draws_chart(p) == p = "Chart"

\* chart_ui up to the walker loop, for a snapshot without rows
begin_draw_empty_keeps_cursor ==
    /\ pc = "draw"
    /\ draws_chart(page)
    /\ all_txs = <<>>
    /\ datasets' = [m \in 1..NumMethods |-> <<<<0, 0>>>>]
    /\ last_balances' = [m \in 1..NumMethods |-> 0]
    /\ lowest_balance' = 0
    /\ highest_balance' = 0
    /\ date_labels' = <<>>
    /\ current_axis' = 0
    /\ checking_date' = DefaultNextDate
    /\ to_add_again' = FALSE
    /\ data_num' = 0
    /\ to_loop' = None
    /\ pc' = "axis"
    /\ UNCHANGED <<host, ledger, chart_index, frame>>
begin_draw_empty ==
    /\ pc = "draw"
    /\ draws_chart(page)
    /\ all_txs = <<>>
    /\ datasets' = [m \in 1..NumMethods |-> <<<<0, 0>>>>]
    /\ last_balances' = [m \in 1..NumMethods |-> 0]
    /\ lowest_balance' = 0
    /\ highest_balance' = 0
    /\ date_labels' = <<>>
    /\ current_axis' = 0
    /\ chart_index' = None
    /\ checking_date' = DefaultNextDate
    /\ to_add_again' = FALSE
    /\ data_num' = 0
    /\ to_loop' = None
    /\ pc' = "axis"
    /\ UNCHANGED <<host, ledger, frame>>

\* chart_ui up to the walker loop, for a snapshot with rows
begin_draw_keeps_series ==
    /\ pc = "draw"
    /\ draws_chart(page)
    /\ all_txs # <<>>
    /\ datasets' = datasets
    /\ last_balances' = <<>>
    /\ lowest_balance' = 0
    /\ highest_balance' = 0
    /\ current_axis' = 0
    /\ checking_date' = first_date
    /\ chart_index' = update_cursor(chart_index, total_loop)
    /\ to_loop' = IF chart_index'.some
                  THEN Some(total_loop * Scale - chart_index'.val)
                  ELSE None
    /\ date_labels' = <<first_date, final_date>>
    /\ to_add_again' = FALSE
    /\ data_num' = 0
    /\ pc' = "walk"
    /\ UNCHANGED <<host, ledger, frame>>
begin_draw ==
    /\ pc = "draw"
    /\ draws_chart(page)
    /\ all_txs # <<>>
    /\ IF ~parses(first_date) \/ ~parses(final_date)
       THEN \* parse_from_str(&all_txs[0][0]) or of the last row: unwrap of Err
            /\ pc' = "panic"
            /\ UNCHANGED <<host, ledger, chart_index, walk, frame>>
       ELSE /\ datasets' = <<>>
            /\ last_balances' = <<>>
            /\ lowest_balance' = 0
            /\ highest_balance' = 0
            /\ current_axis' = 0
            /\ checking_date' = first_date
            /\ chart_index' = update_cursor(chart_index, total_loop)
            /\ to_loop' = IF chart_index'.some
                          THEN Some(total_loop * Scale - chart_index'.val)
                          ELSE None
            /\ date_labels' = <<first_date, final_date>>
            /\ to_add_again' = FALSE
            /\ data_num' = 0
            /\ pc' = "walk"
            /\ UNCHANGED <<host, ledger, frame>>

\* one iteration of the walker on a day that carries a snapshot row
walk_row ==
    /\ pc = "walk"
    /\ checking_date \in all_dates
    /\ IF \/ data_num + 1 > Len(all_balance)
          \/ (Len(all_txs) > data_num + 1 /\ ~parses(all_txs[data_num + 2]))
          \/ \E m \in 1..NumMethods : ~parses(all_balance[data_num + 1][m])
       THEN \* all_balance[data_num]: index out of bounds; or the unwrap of
            \* the next row's date or of a balance of this row: Err
            /\ pc' = "panic"
            /\ UNCHANGED <<host, ledger, chart_index, walk, frame>>
       ELSE LET current_balances == all_balance[data_num + 1]
                next_date == IF Len(all_txs) > data_num + 1
                             THEN all_txs[data_num + 2]
                             ELSE DefaultNextDate
                ext == track_extrema([lo |-> lowest_balance, hi |-> highest_balance],
                                     current_balances, chart_activated_methods,
                                     NumMethods)
                again == (next_date = checking_date)
                axis == IF again THEN current_axis ELSE current_axis + 1
                cd == IF again THEN checking_date ELSE checking_date + 1
                ex == loop_exit(again, to_loop, cd, date_labels)
            IN /\ datasets' = [m \in 1..NumMethods |->
                                  push_row(datasets, m, to_add_again, current_axis,
                                           current_balances[m])]
               /\ last_balances' = current_balances
               /\ lowest_balance' = ext.lo
               /\ highest_balance' = ext.hi
               /\ to_add_again' = again
               /\ current_axis' = axis
               /\ checking_date' = cd
               /\ data_num' = data_num + 1
               /\ to_loop' = ex.to_loop
               /\ date_labels' = ex.date_labels
               /\ pc' = IF ex.brk THEN "axis" ELSE "walk"
               /\ UNCHANGED <<host, ledger, chart_index, frame>>

\* one iteration of the walker on a day without a snapshot row
walk_carry ==
    /\ pc = "walk"
    /\ checking_date \notin all_dates
    /\ LET cd == checking_date + 1
           ex == loop_exit(to_add_again, to_loop, cd, date_labels)
       IN /\ datasets' = [m \in 1..NumMethods |->
                             push_carry(datasets, m, current_axis, last_balances)]
          /\ current_axis' = current_axis + 1
          /\ checking_date' = cd
          /\ to_loop' = ex.to_loop
          /\ date_labels' = ex.date_labels
          /\ pc' = IF ex.brk THEN "axis" ELSE "walk"
          /\ UNCHANGED <<host, ledger, chart_index, last_balances, lowest_balance,
                         highest_balance, to_add_again, data_num, frame>>

\* chart_ui after the walker loop: padding, gridlines, colours, the chart
finish_draw ==
    /\ pc = "axis"
    /\ LET hi == pad_high(highest_balance)
           lo == pad_low(lowest_balance)
           diff == (hi - lo) \div 10
       IN /\ y_bounds' = <<lo, hi>>
          /\ labels' = grid_labels(lo, diff, 10)
    /\ final_dataset' = render_datasets(datasets, chart_activated_methods,
                                        NumMethods).out
    /\ x_bounds' = <<0, current_axis - 1>>
    /\ mode_selection_tab' = chart_modes
    /\ pc' = "poll"
    /\ UNCHANGED <<host, ledger, chart_index, walk>>

\* start_app after the draw of the chart page: the animation is pending and
\* the 2 ms poll timed out, so the loop continues with the next draw
poll_timeout_always(p, cur) == p = "Chart"
\* CurrentUi::Chart: chart_index.is_some() && !poll(2 ms)
chart_poll_continues(p, cur) == p = "Chart" /\ cur.some

poll_timeout ==
    /\ pc = "poll"
    /\ chart_poll_continues(page, chart_index)
    /\ pc' = "draw"
    /\ UNCHANGED <<host, ledger, chart_index, walk, frame>>

\* start_app after the draw: no further animation frame, wait for a key
poll_key ==
    /\ pc = "poll"
    /\ pc' = "read"
    /\ UNCHANGED <<host, ledger, chart_index, walk, frame>>

\* the draw of a page other than the chart page: no chart is on screen
draw_other ==
    /\ pc = "draw"
    /\ ~draws_chart(page)
    /\ labels' = <<>>
    /\ final_dataset' = <<>>
    /\ x_bounds' = <<0, 0>>
    /\ y_bounds' = <<0, 0>>
    /\ mode_selection_tab' = 0
    /\ pc' = "poll"
    /\ UNCHANGED <<host, ledger, chart_index, walk>>

\* the polls of the Initial and Home pages timed out: their own animation
poll_timeout_other ==
    /\ pc = "poll"
    /\ page \in {"Initial", "Home"}
    /\ pc' = "draw"
    /\ UNCHANGED <<host, ledger, chart_index, walk, frame>>

\* an event that leaves the page, the scope and the cursor alone (an event
\* that is no key press, do_chart_up, do_chart_down), followed by the redraw
handle_key ==
    /\ pc = "read"
    /\ pc' = "draw"
    /\ UNCHANGED <<host, ledger, chart_index, walk, frame>>

\* InputKeyHandler::go_home
go_home_page_only ==
    /\ pc = "read"
    /\ page' = "Home"
    /\ pc' = "draw"
    /\ UNCHANGED <<chart_modes, db_txs, db_balance, forms, key, ledger, chart_index,
                   walk, frame>>
go_home ==
    /\ pc = "read"
    /\ CASE page = "AddTx" ->
              /\ add_tx_data' = TxDataNew
              /\ tx_tab' = "Nothing"
              /\ UNCHANGED <<transfer_tab, transfer_data>>
         [] page = "Transfer" ->
              /\ transfer_tab' = "Nothing"
              /\ transfer_data' = TxDataNew
              /\ UNCHANGED <<tx_tab, add_tx_data>>
         [] OTHER -> UNCHANGED forms
    /\ page' = "Home"
    /\ pc' = "draw"
    /\ UNCHANGED <<chart_modes, db_txs, db_balance, key, ledger, chart_index, walk,
                   frame>>

\* the handler start_app constructs takes &mut chart_index (ui_handler.rs,
\* InputKeyHandler::new); its write through that reference restarts the reveal
reset_chart_index_keep == chart_index' = chart_index
reset_chart_index_resume ==
    chart_index' = IF chart_index.some THEN chart_index ELSE Some(0)
reset_chart_index == chart_index' = Some(0)

\* InputKeyHandler::go_chart
go_chart ==
    /\ pc = "read"
    /\ page # "Chart"
    /\ page' = "Chart"
    /\ reset_chart_index
    /\ pc' = "draw"
    /\ UNCHANGED <<chart_modes, db_txs, db_balance, forms, key, ledger, walk, frame>>

\* the scope selector moved to index i: the next draw reads this snapshot
select_scope(i) ==
    /\ chart_modes' = i
    /\ all_txs' = get_data(db_txs, i)
    /\ all_balance' = get_data(db_balance, i)
    /\ UNCHANGED <<page, db_txs, db_balance, forms, key, chart_activated_methods>>

\* InputKeyHandler::handle_left_arrow on the chart page
handle_left_arrow ==
    /\ pc = "read"
    /\ page = "Chart"
    /\ select_scope(previous_index(chart_modes))
    /\ reset_chart_index
    /\ pc' = "draw"
    /\ UNCHANGED <<walk, frame>>

\* InputKeyHandler::handle_right_arrow on the chart page
handle_right_arrow ==
    /\ pc = "read"
    /\ page = "Chart"
    /\ select_scope(next_index(chart_modes))
    /\ reset_chart_index
    /\ pc' = "draw"
    /\ UNCHANGED <<walk, frame>>

Next ==
    \/ begin_draw_empty
    \/ begin_draw
    \/ walk_row
    \/ walk_carry
    \/ finish_draw
    \/ poll_timeout
    \/ poll_key
    \/ handle_key
    \/ draw_other
    \/ poll_timeout_other
    \/ go_home
    \/ go_chart
    \/ handle_left_arrow
    \/ handle_right_arrow

Spec == Init /\ [][Next]_vars

\* the chart page has just been entered or its scope just selected, the
\* cursor is Some(0) and chart_ui is about to be called; from here the poll
\* of every draw times out (no input arrives)
InitAnim ==
    /\ page = "Chart"
    /\ chart_modes \in 0..(Len(chart_mode_titles) - 1)
    /\ db_txs \in {d \in DateSeqs : IsSorted(d)}
    /\ db_balance \in BalanceSeqs(Len(db_txs))
    /\ all_txs = get_data(db_txs, chart_modes)
    /\ all_balance = get_data(db_balance, chart_modes)
    /\ chart_activated_methods \in
           [{all_tx_methods[i] : i \in 1..NumMethods} -> BOOLEAN]
    /\ chart_index = Some(0)
    /\ pc = "draw"
    /\ datasets = <<>>
    /\ last_balances = <<>>
    /\ lowest_balance = 0
    /\ highest_balance = 0
    /\ date_labels = <<>>
    /\ current_axis = 0
    /\ checking_date = DefaultNextDate
    /\ to_add_again = FALSE
    /\ data_num = 0
    /\ to_loop = None
    /\ labels = <<>>
    /\ final_dataset = <<>>
    /\ x_bounds = <<0, 0>>
    /\ y_bounds = <<0, 0>>
    /\ mode_selection_tab = 0
    /\ FreshForms

NextAnim ==
    \/ begin_draw_empty
    \/ begin_draw
    \/ walk_row
    \/ walk_carry
    \/ finish_draw
    \/ poll_timeout

\* the loop of start_app runs on: a step that can be taken is taken
SpecAnim == InitAnim /\ [][NextAnim]_vars /\ WF_vars(NextAnim)

\* the day counts the ladder of render_size is looked at on: the short
\* scopes, both sides of every threshold, and a long scope
TierDays ==
    (0..60) \cup {10000}
        \cup UNION {(b - 5)..(b + 5) : b \in {200, 360, 500, 1000, 2000, 4000}}

\* chart_ui is about to be called with Some(0) on a snapshot of two rows
\* that lie t days apart
InitTiers ==
    /\ page = "Chart"
    /\ chart_modes = Len(chart_mode_titles) - 1
    /\ \E t \in TierDays :
          db_txs = <<DefaultNextDate - 1 - t, DefaultNextDate - 1>>
    /\ db_balance \in BalanceSeqs(Len(db_txs))
    /\ all_txs = db_txs
    /\ all_balance = db_balance
    /\ chart_activated_methods =
           [m \in {all_tx_methods[i] : i \in 1..NumMethods} |-> TRUE]
    /\ chart_index = Some(0)
    /\ pc = "draw"
    /\ datasets = <<>>
    /\ last_balances = <<>>
    /\ lowest_balance = 0
    /\ highest_balance = 0
    /\ date_labels = <<>>
    /\ current_axis = 0
    /\ checking_date = DefaultNextDate
    /\ to_add_again = FALSE
    /\ data_num = 0
    /\ to_loop = None
    /\ labels = <<>>
    /\ final_dataset = <<>>
    /\ x_bounds = <<0, 0>>
    /\ y_bounds = <<0, 0>>
    /\ mode_selection_tab = 0
    /\ FreshForms

\* the draw up to the walker loop: render_size and the cursor update
SpecTiers == InitTiers /\ [][begin_draw]_vars

\* chart_ui is about to be called with Some(0) on a snapshot of two rows
\* that lie 10000 days apart
InitScenario ==
    /\ page = "Chart"
    /\ chart_modes = Len(chart_mode_titles) - 1
    /\ db_txs = <<DefaultNextDate - 1 - 10000, DefaultNextDate - 1>>
    /\ db_balance = CHOOSE b \in BalanceSeqs(Len(db_txs)) : TRUE
    /\ all_txs = db_txs
    /\ all_balance = db_balance
    /\ chart_activated_methods =
           [m \in {all_tx_methods[i] : i \in 1..NumMethods} |-> TRUE]
    /\ chart_index = Some(0)
    /\ pc = "draw"
    /\ datasets = <<>>
    /\ last_balances = <<>>
    /\ lowest_balance = 0
    /\ highest_balance = 0
    /\ date_labels = <<>>
    /\ current_axis = 0
    /\ checking_date = DefaultNextDate
    /\ to_add_again = FALSE
    /\ data_num = 0
    /\ to_loop = None
    /\ labels = <<>>
    /\ final_dataset = <<>>
    /\ x_bounds = <<0, 0>>
    /\ y_bounds = <<0, 0>>
    /\ mode_selection_tab = 0
    /\ FreshForms

\* one iteration of the walker as far as its counters go (the points it
\* pushes are left out: a point is pushed at axis_x = current_axis), and,
\* when the loop breaks, the rest of chart_ui, which leaves the counters
walk_day ==
    /\ pc = "walk"
    /\ LET is_row == checking_date \in all_dates
           next_date == IF Len(all_txs) > data_num + 1
                        THEN all_txs[data_num + 2]
                        ELSE DefaultNextDate
           again == IF is_row THEN next_date = checking_date ELSE to_add_again
           merged == is_row /\ again
           cd == IF merged THEN checking_date ELSE checking_date + 1
           ex == loop_exit(again, to_loop, cd, date_labels)
       IN /\ is_row => data_num < Len(all_balance)
          /\ to_add_again' = again
          /\ data_num' = IF is_row THEN data_num + 1 ELSE data_num
          /\ current_axis' = IF merged THEN current_axis ELSE current_axis + 1
          /\ checking_date' = cd
          /\ to_loop' = ex.to_loop
          /\ date_labels' = ex.date_labels
          /\ pc' = IF ex.brk THEN "poll" ELSE "walk"
    /\ UNCHANGED <<host, ledger, chart_index, datasets, last_balances,
                   lowest_balance, highest_balance, frame>>

NextScenario ==
    \/ begin_draw
    \/ walk_day
    \/ poll_timeout

SpecScenario == InitScenario /\ [][NextScenario]_vars

\* ------------------------------------------------------------ references
NonEmpty == all_txs # <<>>
\* the chart draw has ended and the host has not left the poll after it
AfterDraw == pc = "poll" /\ page = "Chart"
\* the walker loop of this draw has ended
LoopEnded == pc = "axis" \/ AfterDraw
\* chart_ui's locals are those of a draw of the current snapshot
InDraw == pc = "walk" \/ LoopEnded
\* the host is about to call chart_ui
ChartDraw == pc = "draw" /\ page = "Chart"
\* the cursor values an animation of this scope takes after Some(0)
OnGrid(v) ==
    /\ render_size(total_loop) > 0
    /\ \E k \in 1..((total_loop * Scale) \div render_size(total_loop)) :
          v = total_loop * Scale - k * render_size(total_loop)
IsPrefix(s, t) == Len(s) <= Len(t) /\ \A i \in 1..Len(s) : s[i] = t[i]
PointsAt(s, x) == {i \in 1..Len(s) : s[i][1] = x}
\* the last snapshot row whose date is <= day
LastRowUpTo(day) ==
    CHOOSE i \in 1..Len(all_txs) :
        /\ all_txs[i] <= day
        /\ \A j \in 1..Len(all_txs) : all_txs[j] <= day => j <= i
\* the curve of method m over the whole scope, read off the snapshot
FullSeries(m) ==
    [d \in 1..(total_loop + 1) |->
        <<d - 1, all_balance[LastRowUpTo(first_date + d - 1)][m]>>]
\* the draw entered with Some(0): the first cycle of an animation
Step == render_size(total_loop)

\* ---------------------------------------------------------------- claims
\* C1: after any draw the number of series equals the number of roster
\* methods, every series has at least one point, all series are equally long.
C1_SeriesAligned ==
    AfterDraw =>
        /\ Len(datasets) = NumMethods
        /\ \A m \in 1..NumMethods :
              /\ Len(datasets[m]) >= 1
              /\ Len(datasets[m]) = Len(datasets[1])

C1_Witness ==
    /\ AfterDraw /\ NonEmpty /\ chart_index.some
    /\ Len(datasets[1]) >= 2
    /\ \E i \in 1..(data_num - 1) : all_txs[i] = all_txs[i + 1]
    /\ ~chart_activated_methods[all_tx_methods[2]]

\* C2: a run of consecutive same-date rows yields exactly one point for that
\* date in every series, and the point holds the balance of the run's last row.
C2_Coalescing ==
    (LoopEnded /\ NonEmpty) =>
        \A i \in 1..data_num :
            (i = Len(all_txs) \/ all_txs[i + 1] # all_txs[i]) =>
                \A m \in 1..NumMethods :
                    LET x == all_txs[i] - first_date
                        at == PointsAt(datasets[m], x)
                    IN /\ Cardinality(at) = 1
                       /\ \A p \in at : datasets[m][p][2] = all_balance[i][m]

C2_Witness ==
    /\ LoopEnded /\ NonEmpty
    /\ \E i \in 1..(data_num - 1) :
          /\ all_txs[i] = all_txs[i + 1]
          /\ all_balance[i] # all_balance[i + 1]
          /\ Len(datasets[1]) > all_txs[i] - first_date + 1

\* C3: the point of a simulated day that is no row's date has the value of
\* the same method's immediately preceding point.
C3_CarryForward ==
    (InDraw /\ NonEmpty) =>
        \A m \in 1..Len(datasets) :
            \A j \in 2..Len(datasets[m]) :
                (first_date + datasets[m][j][1]) \notin all_dates =>
                    datasets[m][j][2] = datasets[m][j - 1][2]

C3_Witness ==
    /\ LoopEnded /\ NonEmpty
    /\ \E j \in 2..Len(datasets[1]) :
          /\ (first_date + datasets[1][j][1]) \notin all_dates
          /\ datasets[1][j][2] # 0

\* C4: a full draw (cursor None) of a non-empty ledger gives every series
\* total_days + 1 points, the value at offset d being the balance of the
\* last row dated first_date + d or earlier.
C4_FullDrawReference ==
    (LoopEnded /\ NonEmpty /\ ~chart_index.some) =>
        \A m \in 1..NumMethods :
            /\ Len(datasets[m]) = total_loop + 1
            /\ \A d \in 0..total_loop :
                  datasets[m][d + 1][2] =
                      all_balance[LastRowUpTo(first_date + d)][m]

C4_Witness ==
    /\ LoopEnded /\ NonEmpty /\ ~chart_index.some
    /\ Len(all_txs) = 3 /\ all_txs[1] = all_txs[2] /\ total_loop = 2
    /\ all_balance[1] # all_balance[2]

\* C5: in every series the point at index i has axis_x = i (counted from 0),
\* so all methods share the same axis_x at every index.
C5_AxisIsIndex ==
    \A m \in 1..Len(datasets) :
        \A i \in 1..Len(datasets[m]) : datasets[m][i][1] = i - 1

C5_Witness ==
    /\ LoopEnded /\ NonEmpty
    /\ Len(datasets[2]) >= 3
    /\ \E i \in 1..(data_num - 1) : all_txs[i] = all_txs[i + 1]

\* C6: the walker terminates for every non-empty date-sorted ledger: it
\* never reads past the last row (no iteration starts with every row
\* consumed), it reads each row in order on the row's own date; a full draw
\* ends on the day after the last date with every row consumed, a partial
\* draw ends earlier, on its day budget.
WalkMeasure == (Len(all_txs) - data_num) + (final_date + 1 - checking_date)

C6_WalkInBounds ==
    /\ pc # "panic"
    /\ pc = "walk" =>
          /\ WalkMeasure > 0
          /\ data_num < Len(all_txs)
          /\ checking_date <= final_date
          /\ checking_date \in all_dates => all_txs[data_num + 1] = checking_date
          /\ checking_date \notin all_dates => all_txs[data_num + 1] > checking_date
    /\ (LoopEnded /\ NonEmpty /\ ~to_loop.some) =>
          /\ checking_date = final_date + 1
          /\ data_num = Len(all_txs)
    /\ (LoopEnded /\ NonEmpty /\ to_loop.some) =>
          /\ checking_date <= final_date
          /\ to_loop.val - Scale <= 0
          /\ data_num <= Len(all_txs)

\* C7: a draw of a non-empty ledger entered with cursor Some(0) leaves
\* Some(total_days - step) when total_days > step and None otherwise.
C7_FirstCycleStep ==
    /\ (ChartDraw /\ NonEmpty /\ chart_index = Some(0)) =>
          chart_index' = IF total_loop * Scale > Step
                         THEN Some(total_loop * Scale - Step)
                         ELSE None
    /\ pc \in {"walk", "axis"} => chart_index' = chart_index

C7_FirstCycle == [][C7_FirstCycleStep]_vars

C7_Witness ==
    /\ AfterDraw /\ NonEmpty /\ total_loop = 2
    /\ chart_index = Some(total_loop * Scale - Step)

\* C8: a draw entered with cursor Some(v), v # 0, leaves Some(v - step) when
\* v - step > 0 and None otherwise; a draw that leaves None renders the
\* curve up to the last date and no further.
C8_LaterCycleStep ==
    (ChartDraw /\ NonEmpty /\ chart_index.some /\ chart_index.val # 0) =>
        chart_index' = IF chart_index.val - Step > 0
                       THEN Some(chart_index.val - Step)
                       ELSE None

C8_FinalDrawIsFull ==
    (LoopEnded /\ NonEmpty /\ ~chart_index.some) =>
        /\ current_axis = total_loop + 1
        /\ date_labels = <<first_date, final_date>>
        /\ \A m \in 1..NumMethods :
              /\ Len(datasets[m]) = total_loop + 1
              /\ datasets[m][Len(datasets[m])][1] = total_loop

C8_LaterCycle == [][C8_LaterCycleStep]_vars /\ []C8_FinalDrawIsFull

\* the frame on screen is a partial one and this draw has left None
C8_Witness ==
    /\ pc = "axis" /\ NonEmpty /\ ~chart_index.some
    /\ total_loop = 2
    /\ final_dataset # <<>>
    /\ Len(final_dataset[1].data) < Len(datasets[1])

\* C9: over the draws of one animation the cursor values left by the draws
\* are strictly decreasing (and positive) until the cursor is None; Some(0)
\* is the value before the first draw.
C9_CursorStep ==
    (ChartDraw /\ NonEmpty /\ chart_index.some /\ chart_index.val # 0
        /\ OnGrid(chart_index.val) /\ chart_index'.some) =>
        /\ chart_index'.val < chart_index.val
        /\ chart_index'.val > 0

FirstCycle == chart_index.some /\ chart_index.val = total_loop * Scale - Step

C10_PrefixOfFull ==
    (LoopEnded /\ NonEmpty) =>
        \A m \in 1..NumMethods :
            /\ IsPrefix(datasets[m], FullSeries(m))
            /\ ~chart_index.some => datasets[m] = FullSeries(m)

C10_FrameStep ==
    (pc = "axis" /\ pc' = "poll" /\ NonEmpty /\ ~FirstCycle
        /\ mode_selection_tab = chart_modes) =>
        /\ Len(final_dataset') >= Len(final_dataset)
        /\ \A k \in 1..Len(final_dataset) :
              IsPrefix(final_dataset[k].data, final_dataset'[k].data)

C10_NoGapNoOverlap == []C10_PrefixOfFull /\ [][C10_FrameStep]_vars

\* a later cycle that shows more than the frame before it, past a merged date
C10_Witness ==
    /\ pc = "axis" /\ NonEmpty /\ chart_index.some /\ ~FirstCycle
    /\ final_dataset # <<>>
    /\ Len(final_dataset[1].data) < Len(datasets[1])
    /\ all_txs[1] = all_txs[2]
    /\ all_balance[1] # all_balance[2]

\* C11: a cursor that is None stays None through every step of every draw
\* and through the poll after it, on any scope; it becomes Some only in the
\* host's handling of an event that enters the chart page or moves the scope
\* selector.
C11_DrawKeepsNone ==
    (pc \in {"draw", "walk", "axis", "poll"} /\ ~chart_index.some) =>
        ~chart_index'.some

C11_RearmByHost ==
    (~chart_index.some /\ chart_index'.some) =>
        /\ pc = "read"
        /\ (page # "Chart" /\ page' = "Chart") \/ chart_modes' # chart_modes

C11_NoneStays == [][C11_DrawKeepsNone /\ C11_RearmByHost]_vars

\* a draw that ends with None while the frame before it, of the same scope,
\* was already the full curve: the draw was entered with None
C11_Witness ==
    /\ pc = "axis" /\ NonEmpty /\ ~chart_index.some
    /\ total_loop >= 1
    /\ mode_selection_tab = chart_modes
    /\ final_dataset # <<>>
    /\ Len(final_dataset[1].data) = total_loop + 1

\* C12: a step that moves the scope selector on the chart page leaves the
\* cursor at Some(0), whatever it was, and the host draws next.
C12_ScopeChangeStep ==
    chart_modes' # chart_modes =>
        /\ page = "Chart" /\ page' = "Chart"
        /\ chart_index' = Some(0)
        /\ pc' = "draw"

C13_EntryStep ==
    (page # "Chart" /\ page' = "Chart") =>
        /\ chart_index' = Some(0)
        /\ pc' = "draw"

C14_CadenceStep ==
    /\ (AfterDraw /\ chart_index.some) =>
          /\ pc' \in {"draw", "read"}
          /\ UNCHANGED <<chart_index, page, chart_modes>>
    /\ (AfterDraw /\ ~chart_index.some) =>
          /\ pc' = "read"
          /\ UNCHANGED <<chart_index, page, chart_modes>>
    /\ pc \in {"walk", "axis"} => UNCHANGED <<chart_index, page, chart_modes>>

C14_RedrawCadence == [][C14_CadenceStep]_vars

\* a redraw of the same scope is due while the animation is under way
C14_Witness ==
    /\ ChartDraw /\ NonEmpty
    /\ chart_index.some /\ chart_index.val # 0
    /\ final_dataset # <<>>
    /\ mode_selection_tab = chart_modes

\* C15: on the chart page, with the scope unchanged and every poll timing
\* out, an animation started at Some(0) reaches, after finitely many draws,
\* a cursor of None, and from then on the host starts no further draw (it is
\* at the poll that only an event ends, or the draw that left None has
\* stopped the program).
C15_AnimationTerminates ==
    <>[](~chart_index.some /\ pc \in {"poll", "panic"})

\* the animation of a scope of several days has run to its end
C15_Witness ==
    /\ AfterDraw /\ NonEmpty /\ ~chart_index.some
    /\ total_loop = 2
    /\ Len(datasets[1]) = total_loop + 1

\* C16: once an event is read the next step is its handling, which never
\* advances the animation by a step; the cursor advances only in a draw of
\* the chart page, and a draw follows the poll of the chart page without an
\* event only when the cursor is Some.
C16_CancelStep ==
    /\ pc = "read" =>
          /\ pc' = "draw"
          /\ chart_index' = chart_index \/ chart_index' = Some(0)
    /\ chart_index' # chart_index =>
          \/ ChartDraw
          \/ pc = "read" /\ chart_index' = Some(0)
    /\ (pc = "poll" /\ pc' = "draw" /\ page = "Chart") => chart_index.some
    /\ page' # "Chart" => chart_index' = chart_index

C16_Cancellation == [][C16_CancelStep]_vars

\* an event read in the middle of an animation took the host off the chart
\* page: the cursor is still Some and stays where it was
C16_Witness ==
    /\ pc = "poll" /\ page = "Home"
    /\ chart_index.some /\ chart_index.val # 0

\* C17: the step is total_days * 0.007 above 4000 days, * 0.005 in
\* (2000, 4000], * 0.004 in (1000, 2000], * 0.003 in (500, 1000], * 0.004 in
\* (360, 500], * 0.002 in (200, 360], * 0.02 below 50 days and one day from
\* 50 to 200 days; the first draw of a scope moves the cursor by that step.
C17_Thousandths(t) ==
    CASE t > 4000 -> 7
      [] t > 2000 /\ t <= 4000 -> 5
      [] t > 1000 /\ t <= 2000 -> 4
      [] t > 500 /\ t <= 1000 -> 3
      [] t > 360 /\ t <= 500 -> 4
      [] t > 200 /\ t <= 360 -> 2
      [] t < 50 -> 20
      [] t >= 50 /\ t <= 200 -> 0

C17_TierStep(t) ==
    IF C17_Thousandths(t) = 0 THEN Scale
    ELSE (t * C17_Thousandths(t) * Scale) \div 1000

C17_StepTiers ==
    /\ Step = C17_TierStep(total_loop)
    /\ pc = "walk" =>
          chart_index = IF total_loop * Scale > C17_TierStep(total_loop)
                        THEN Some(total_loop * Scale - C17_TierStep(total_loop))
                        ELSE None

\* the first draw of a scope of 360 days, the top of the 0.002 tier
C17_Witness ==
    /\ pc = "walk" /\ total_loop = 360
    /\ chart_index = Some(360 * Scale - (72 * Scale) \div 100)

\* C18: for every scope of total_days >= 1 the step of a cycle is at least
\* one day.
C18_MinimumStep ==
    (InDraw /\ NonEmpty /\ total_loop >= 1) => Step >= Scale

\* C19: with total_days = 10000 the step is 70 days; the draws from Some(0)
\* leave Some(9930), Some(9860), ..., each 70 less, down to Some(60) and
\* then None; the draw that leaves None ends at day offset 10000, and no
\* draw pushes a point at an axis_x above 10000.
C19_CursorStep ==
    ChartDraw =>
        chart_index' = IF chart_index = Some(0) THEN Some(9930 * Scale)
                       ELSE IF chart_index = Some(60 * Scale) THEN None
                       ELSE Some(chart_index.val - 70 * Scale)

C19_Bounded ==
    /\ total_loop = 10000
    /\ Step = 70 * Scale
    /\ chart_index.some =>
          \/ chart_index.val = 0
          \/ \E k \in 0..141 : chart_index.val = (60 + 70 * k) * Scale
    /\ pc = "walk" => current_axis <= 10000
    /\ (pc = "poll" /\ ~chart_index.some) =>
          /\ current_axis = 10000 + 1
          /\ checking_date = final_date + 1

C19_Scenario == []C19_Bounded /\ [][C19_CursorStep]_vars

\* the second draw has ended: it left Some(9860) and pushed 140 points
C19_Witness ==
    /\ pc = "poll" /\ total_loop = 10000
    /\ chart_index = Some(9860 * Scale)
    /\ current_axis = 140

\* C20: the draw of a snapshot without rows gives every roster method the
\* single point (0, 0), leaves the cursor None whatever it was, and ends
\* like any other draw.
C20_EmptyDraw ==
    (LoopEnded /\ ~NonEmpty) =>
        /\ Len(datasets) = NumMethods
        /\ \A m \in 1..NumMethods : datasets[m] = <<<<0, 0>>>>
        /\ ~chart_index.some

C20_EmptyStep ==
    (ChartDraw /\ ~NonEmpty) => (pc' = "axis" /\ chart_index' = None)

C20_EmptyScope == []C20_EmptyDraw /\ [][C20_EmptyStep]_vars /\ [](~NonEmpty => pc # "panic")

\* the selector has just moved to a scope without rows, so the draw was
\* entered with Some(0)
C20_Witness ==
    /\ pc = "axis" /\ ~NonEmpty /\ ~chart_index.some
    /\ db_txs # <<>>
    /\ final_dataset # <<>>
    /\ mode_selection_tab # chart_modes


\* ------------------------------------------------- activation and bounds
Max(S) == CHOOSE x \in S : \A y \in S : y <= x
Min(S) == CHOOSE x \in S : \A y \in S : x <= y

Activated == {m \in 1..NumMethods : chart_activated_methods[all_tx_methods[m]]}
Deactivated == (1..NumMethods) \ Activated
\* the rows the walker of this draw has looked at
WalkedRows == IF NonEmpty THEN 1..data_num ELSE {}
\* 0 and the balances of the activated methods in the walked rows
ActivatedValues == {0} \cup {all_balance[i][m] : i \in WalkedRows, m \in Activated}
RenderedNames == {final_dataset[d].name : d \in 1..Len(final_dataset)}

\* C21: the bounds of a draw are determined by 0 and the balances of the
\* activated methods in the rows walked (a deactivated method's balances do
\* not enter them); a deactivated method still has a series at its roster
\* index, as long as every other series, and is not among the rendered
\* datasets, which are the activated methods in roster order.
C21_Activation ==
    AfterDraw =>
        /\ lowest_balance = Min(ActivatedValues)
        /\ highest_balance = Max(ActivatedValues)
        /\ y_bounds = <<pad_low(Min(ActivatedValues)), pad_high(Max(ActivatedValues))>>
        /\ Len(datasets) = NumMethods
        /\ \A m \in Deactivated :
               /\ \A n \in 1..NumMethods : Len(datasets[m]) = Len(datasets[n])
               /\ all_tx_methods[m] \notin RenderedNames
        /\ \A m \in Activated : all_tx_methods[m] \in RenderedNames
        /\ Len(final_dataset) = Cardinality(Activated)

\* Bank is deactivated and had the balance -20 in a walked row, below the
\* lowest balance of the draw
C21_Witness ==
    /\ AfterDraw /\ NonEmpty
    /\ chart_activated_methods["Cash"] /\ ~chart_activated_methods["Bank"]
    /\ \E i \in WalkedRows : all_balance[i][2] < lowest_balance
    /\ Len(datasets[2]) >= 2


\* C22: after padding, every value of every rendered series lies between
\* the low bound and the high bound of the chart (bounds in hundredths).
C22_ValuesInBounds ==
    AfterDraw =>
        \A d \in 1..Len(final_dataset) :
            \A i \in 1..Len(final_dataset[d].data) :
                /\ y_bounds[1] <= final_dataset[d].data[i][2] * 100
                /\ final_dataset[d].data[i][2] * 100 <= y_bounds[2]

\* C23: the padded high bound is the high plus 10% of it, and a negative
\* low is padded to a bound below it.
C23_PaddingDirection ==
    AfterDraw =>
        /\ y_bounds[2] = highest_balance * 100 + highest_balance * 10
        /\ lowest_balance < 0 => y_bounds[1] < lowest_balance * 100


\* C24: with the unpadded bounds [low, high] of the draw, the first gridline
\* value is low - low * 0.1, the value k places after it (k = 1..10) is the
\* first plus k times diff, diff being a tenth of padded high minus padded
\* low, the last value is high + high * 0.1, and the values never decrease
\* (values in hundredths, where the division by ten is exact).
C24_Gridlines ==
    AfterDraw =>
        LET diff == (y_bounds[2] - y_bounds[1]) \div 10
        IN /\ (y_bounds[2] - y_bounds[1]) % 10 = 0
           /\ Len(labels) = 11
           /\ labels[1] = lowest_balance * 100 - lowest_balance * 10
           /\ \A k \in 1..10 : labels[k + 1] = labels[1] + k * diff
           /\ labels[11] = highest_balance * 100 + highest_balance * 10
           /\ \A k \in 1..10 : labels[k] <= labels[k + 1]

\* a draw with a negative low and a positive high: the gridlines rise from
\* -18.00 to 165.00
C24_Witness ==
    /\ AfterDraw
    /\ lowest_balance = -20 /\ highest_balance = 150
    /\ labels[1] = -1800 /\ labels[2] = 30 /\ labels[11] = 16500


\* C25: the bounds start at 0/0: in every draw low bound <= 0 <= high bound,
\* before and after padding; when no method is activated, or every balance
\* that counts is zero, or the snapshot is empty, both bounds are 0 and all
\* eleven gridline values are 0.
C25_ZeroInBounds ==
    AfterDraw =>
        /\ lowest_balance <= 0 /\ 0 <= highest_balance
        /\ y_bounds[1] <= 0 /\ 0 <= y_bounds[2]
        /\ (Activated = {} \/ ~NonEmpty \/ ActivatedValues = {0}) =>
               /\ lowest_balance = 0 /\ highest_balance = 0
               /\ y_bounds = <<0, 0>>
               /\ labels = [i \in 1..11 |-> 0]

\* the three flat cases: nothing activated on a ledger with balances, an
\* activated method whose balances are all zero, and an empty snapshot
C25_WitnessDeactivated ==
    AfterDraw /\ NonEmpty /\ Activated = {} /\ data_num >= 2
C25_WitnessZero ==
    /\ AfterDraw /\ NonEmpty /\ Activated = {2} /\ data_num >= 1
    /\ \A i \in WalkedRows : all_balance[i][2] = 0
C25_WitnessEmpty ==
    AfterDraw /\ ~NonEmpty /\ Activated # {}
C25_Witness ==
    /\ AfterDraw /\ NonEmpty /\ Activated = {1} /\ data_num >= 2
    /\ lowest_balance = 0 /\ highest_balance = 150
    /\ labels[1] = 0


\* C26: the first date label is the first transaction date; the second is
\* the ledger's final date in a full draw and a date strictly before the
\* final date in every partial draw (cursor Some after the update).
C26_DateLabels ==
    (AfterDraw /\ NonEmpty) =>
        /\ Len(date_labels) = 2
        /\ date_labels[1] = first_date
        /\ ~chart_index.some => date_labels[2] = final_date
        /\ chart_index.some => date_labels[2] < final_date


\* C27 as stated: every draw, the draw of an empty snapshot included, yields
\* exactly 11 gridline labels and exactly 2 date labels.
C27_ShapeAnyDraw ==
    AfterDraw => (Len(labels) = 11 /\ Len(date_labels) = 2)

\* C27: every draw yields exactly 11 gridline labels; the draw of a snapshot
\* with rows yields exactly 2 date labels, full or partial, and the draw of
\* an empty snapshot yields no date label.
C27_Shape ==
    AfterDraw =>
        /\ Len(labels) = 11
        /\ NonEmpty => Len(date_labels) = 2
        /\ ~NonEmpty => date_labels = <<>>

\* a partial draw, whose budget break replaced the second date label
C27_Witness ==
    /\ AfterDraw /\ NonEmpty /\ chart_index.some
    /\ Len(labels) = 11 /\ Len(date_labels) = 2
    /\ date_labels[2] # final_date
\* the draw of an empty snapshot
C27_WitnessEmpty ==
    AfterDraw /\ ~NonEmpty /\ Len(labels) = 11 /\ date_labels = <<>>


\* ------------------------------------------------- the palette alone
\* a roster of MaxMethods methods with any activation map, each method with
\* the series of an empty snapshot; the step hands out the colours
palette_methods == [i \in 1..MaxMethods |-> ToString(i)]

InitPalette ==
    /\ page = "Chart"
    /\ chart_modes = 0
    /\ db_txs = <<>>
    /\ db_balance = <<>>
    /\ all_txs = <<>>
    /\ all_balance = <<>>
    /\ chart_activated_methods \in
           [{palette_methods[i] : i \in 1..MaxMethods} -> BOOLEAN]
    /\ chart_index = None
    /\ pc = "axis"
    /\ datasets = [m \in 1..MaxMethods |-> <<<<0, 0>>>>]
    /\ last_balances = [m \in 1..MaxMethods |-> 0]
    /\ lowest_balance = 0
    /\ highest_balance = 0
    /\ date_labels = <<>>
    /\ current_axis = 0
    /\ checking_date = DefaultNextDate
    /\ to_add_again = FALSE
    /\ data_num = 0
    /\ to_loop = None
    /\ labels = <<>>
    /\ final_dataset = <<>>
    /\ x_bounds = <<0, 0>>
    /\ y_bounds = <<0, 0>>
    /\ mode_selection_tab = 0
    /\ FreshForms

render_palette ==
    /\ pc = "axis"
    /\ final_dataset' = render_roster(palette_methods, datasets,
                                      chart_activated_methods, MaxMethods).out
    /\ pc' = "poll"
    /\ UNCHANGED <<host, ledger, chart_index, walk, labels, x_bounds, y_bounds,
                   mode_selection_tab>>

SpecPalette == InitPalette /\ [][render_palette]_vars

\* the rank of roster position m among the activated positions up to it
PaletteRank(m) ==
    Cardinality({j \in 1..m : chart_activated_methods[palette_methods[j]]})

\* C28: walking the roster left to right, the k-th activated method is the
\* k-th rendered dataset; for k = 1..6 its colour is the k-th of Red, Purple,
\* Pink, Orange, Green, Cyan, and after the sixth it is the fallback colour;
\* deactivated methods are not rendered and shift no colour.
C28_Palette ==
    pc = "poll" =>
        /\ Len(final_dataset) = PaletteRank(MaxMethods)
        /\ \A m \in 1..MaxMethods :
               chart_activated_methods[palette_methods[m]] =>
                   LET k == PaletteRank(m)
                   IN /\ final_dataset[k].name = palette_methods[m]
                      /\ final_dataset[k].color =
                             IF k <= 6
                             THEN <<"Red", "Purple", "Pink", "Orange", "Green", "Cyan">>[k]
                             ELSE "Yellow"

\* seven methods activated around a deactivated second one: the third method
\* is second in rank and Purple, the eighth is seventh and gets the fallback
C28_Witness ==
    /\ pc = "poll"
    /\ ~chart_activated_methods[palette_methods[2]]
    /\ PaletteRank(MaxMethods) = 7
    /\ final_dataset[2].name = palette_methods[3]
    /\ final_dataset[2].color = "Purple"
    /\ final_dataset[6].color = "Cyan"
    /\ final_dataset[7].color = "Yellow"


\* ------------------------------------------------------------ idempotence
\* the frame on screen is a chart of the current scope that shows the whole
\* range: the frame of a draw that left the cursor None
FullFrameShown ==
    /\ labels # <<>>
    /\ mode_selection_tab = chart_modes
    /\ NonEmpty => x_bounds = <<0, total_loop>>

\* a frame shows the whole range exactly when its draw left the cursor None
C29_FullIffNone ==
    (AfterDraw /\ NonEmpty) => (~chart_index.some <=> x_bounds = <<0, total_loop>>)

\* the series and date labels of a draw that left the cursor None are read
\* off the snapshot alone
C29_FullDrawOutputs ==
    (AfterDraw /\ NonEmpty /\ ~chart_index.some) =>
        /\ date_labels = <<first_date, final_date>>
        /\ \A m \in 1..NumMethods : datasets[m] = FullSeries(m)

\* a draw with cursor None that follows a draw with cursor None of the same
\* scope puts the same frame on screen: rendered series with their colours,
\* bounds, gridline labels and x axis
C29_RedrawStep ==
    (pc = "axis" /\ page = "Chart" /\ ~chart_index.some /\ FullFrameShown) =>
        /\ labels' = labels
        /\ final_dataset' = final_dataset
        /\ x_bounds' = x_bounds
        /\ y_bounds' = y_bounds
        /\ chart_index' = None

\* a draw entered with cursor None never sets the cursor
C29_NoneStep ==
    (page = "Chart" /\ pc \in {"draw", "walk", "axis"} /\ ~chart_index.some) =>
        chart_index' = None

\* C29: two draws with cursor None of the same snapshot, roster, activation
\* map and scope produce identical series, bounds, gridline labels, date
\* labels and colours, and both leave the cursor None.
C29_Idempotence ==
    /\ []C29_FullIffNone
    /\ []C29_FullDrawOutputs
    /\ [][C29_RedrawStep]_vars
    /\ [][C29_NoneStep]_vars

\* the second of two full draws of a three-row snapshot is about to put its
\* frame on screen, over the frame of the first
C29_Witness ==
    /\ pc = "axis" /\ page = "Chart" /\ ~chart_index.some /\ FullFrameShown
    /\ Len(all_txs) = 3 /\ total_loop >= 2
    /\ Len(final_dataset) = 2
    /\ final_dataset[1].data = FullSeries(1)


\* ------------------------------------------------- the concrete scenario
\* the ledger 01-01-2024: 100, 01-01-2024: 150, 03-01-2024: 150 of the first
\* method of the roster (dates as day numbers counted from 01-01-2024); the
\* second method of the roster has any of its balances in these rows and is
\* deactivated where the scenario is stated
InitExample ==
    /\ page = "Initial"
    /\ chart_modes = 0
    /\ db_txs = <<0, 0, 2>>
    /\ db_balance \in {<<<<100, b[1]>>, <<150, b[2]>>, <<150, b[3]>>>> :
                           b \in [1..3 -> {-20, 0}]}
    /\ all_txs = get_data(db_txs, chart_modes)
    /\ all_balance = get_data(db_balance, chart_modes)
    /\ chart_activated_methods \in
           [{all_tx_methods[i] : i \in 1..NumMethods} -> BOOLEAN]
    /\ chart_index = None
    /\ pc = "read"
    /\ datasets = <<>>
    /\ last_balances = <<>>
    /\ lowest_balance = 0
    /\ highest_balance = 0
    /\ date_labels = <<>>
    /\ current_axis = 0
    /\ checking_date = DefaultNextDate
    /\ to_add_again = FALSE
    /\ data_num = 0
    /\ to_loop = None
    /\ labels = <<>>
    /\ final_dataset = <<>>
    /\ x_bounds = <<0, 0>>
    /\ y_bounds = <<0, 0>>
    /\ mode_selection_tab = 0
    /\ FreshForms

SpecExample == InitExample /\ [][Next]_vars

\* C30: for the ledger of the scenario with only its method shown and the
\* cursor None, the series is (0,150), (1,150), (2,150), the padded low
\* bound is 0, the padded high bound is 165, the x axis spans 0 to 2 and the
\* date labels are 01-01-2024 and 03-01-2024 (bounds in hundredths).
C30_Scenario ==
    (AfterDraw /\ NonEmpty /\ ~chart_index.some /\ Activated = {1}) =>
        /\ datasets[1] = <<<<0, 150>>, <<1, 150>>, <<2, 150>>>>
        /\ Len(final_dataset) = 1
        /\ final_dataset[1].data = <<<<0, 150>>, <<1, 150>>, <<2, 150>>>>
        /\ y_bounds = <<0, 16500>>
        /\ x_bounds = <<0, 2>>
        /\ date_labels = <<0, 2>>

\* the full draw of the scenario has ended, and it was a redraw over its own
\* frame, so it was entered with cursor None
C30_Witness ==
    /\ AfterDraw /\ NonEmpty /\ ~chart_index.some /\ Activated = {1}
    /\ all_txs = <<0, 0, 2>>
    /\ final_date = 2 /\ current_axis = 3
    /\ labels[11] = 16500


\* ------------------------------------------------------- malformed rows
\* snapshots in which one date, or one balance, does not parse, and the
\* snapshot without rows
SortedDates == {d \in DateSeqs : IsSorted(d)}
MalformedDates ==
    UNION {{[d EXCEPT ![i] = Unparseable] : i \in 1..Len(d)} : d \in SortedDates}
MalformedBalances(n) ==
    UNION {{[b EXCEPT ![i][m] = Unparseable] : i \in 1..n, m \in 1..NumMethods} :
               b \in BalanceSeqs(n)}

\* the chart page with the All Time scope is about to be drawn, with or
\* without a pending animation
InitMalformed ==
    /\ page = "Chart"
    /\ chart_modes = 1
    /\ \/ /\ db_txs \in SortedDates
          /\ db_balance \in MalformedBalances(Len(db_txs)) \cup {<<>>}
          /\ Len(db_balance) = Len(db_txs)
       \/ /\ db_txs \in MalformedDates
          /\ db_balance \in BalanceSeqs(Len(db_txs))
    /\ all_txs = db_txs
    /\ all_balance = db_balance
    /\ chart_activated_methods \in
           [{all_tx_methods[i] : i \in 1..NumMethods} -> BOOLEAN]
    /\ chart_index \in {None, Some(0)}
    /\ pc = "draw"
    /\ datasets = <<>>
    /\ last_balances = <<>>
    /\ lowest_balance = 0
    /\ highest_balance = 0
    /\ date_labels = <<>>
    /\ current_axis = 0
    /\ checking_date = DefaultNextDate
    /\ to_add_again = FALSE
    /\ data_num = 0
    /\ to_loop = None
    /\ labels = <<>>
    /\ final_dataset = <<>>
    /\ x_bounds = <<0, 0>>
    /\ y_bounds = <<0, 0>>
    /\ mode_selection_tab = 0
    /\ FreshForms

SpecMalformed == InitMalformed /\ [][NextAnim]_vars

HasMalformedRow ==
    \E i \in 1..Len(all_txs) :
        \/ ~parses(all_txs[i])
        \/ \E m \in 1..NumMethods : ~parses(all_balance[i][m])

\* C31: a draw of a snapshot that contains a row with an unparseable date or
\* balance ends in a fatal error and produces no curve: it never completes
\* and never puts a chart on screen.
C31_MalformedIsFatal ==
    HasMalformedRow => (pc # "poll" /\ final_dataset = <<>> /\ labels = <<>>)


\* C32: once a draw of a non-empty ledger has updated the cursor, the cursor
\* is None or Some(r) with 0 < r < total_days; a draw never leaves Some(0)
\* or a negative value.
C32_CursorRange ==
    (InDraw /\ NonEmpty /\ chart_index.some) =>
        (0 < chart_index.val /\ chart_index.val < total_loop * Scale)

C32_UpdateStep ==
    (ChartDraw /\ NonEmpty /\ pc' = "walk" /\ chart_index'.some) =>
        (0 < chart_index'.val /\ chart_index'.val < total_loop * Scale)

C32_NeverZero == []C32_CursorRange /\ [][C32_UpdateStep]_vars

\* the last partial draw of an animation: the cursor left is a fraction of a
\* day, reached from Some(0) through earlier draws
C32_Witness ==
    /\ AfterDraw /\ NonEmpty /\ chart_index.some
    /\ chart_index.val < Scale
    /\ total_loop = 3


\* C33: the iteration that consumes the last row of the snapshot never sets
\* the coalesce flag, whatever the row's date: it advances the axis and the
\* simulated day, and no iteration reads a row past the end.
C33_LastRowStep ==
    /\ (pc = "walk" /\ checking_date \in all_dates /\ data_num + 1 = Len(all_txs)) =>
           /\ to_add_again' = FALSE
           /\ current_axis' = current_axis + 1
           /\ checking_date' = checking_date + 1
    /\ (pc = "walk" /\ checking_date \in all_dates) => data_num + 1 <= Len(all_balance)

C33_LastRowAdvances == [][C33_LastRowStep]_vars


\* ------------------------------------------------- any incoming cursor
\* cursor values a draw may be entered with: the start value, values on and
\* off the grid of the scope's own animation, and values above total_loop
\* (in 1/Scale day)
IncomingCursors == {0, 20, 500, 980, 1000, 2940, 5000}

\* the chart page is about to be drawn with any such cursor; from here the
\* poll of every draw times out (no input arrives)
InitLeftover ==
    /\ page = "Chart"
    /\ chart_modes = 1
    /\ db_txs \in {d \in DateSeqs : IsSorted(d)}
    /\ db_balance \in BalanceSeqs(Len(db_txs))
    /\ all_txs = get_data(db_txs, chart_modes)
    /\ all_balance = get_data(db_balance, chart_modes)
    /\ chart_activated_methods = [n \in {all_tx_methods[i] : i \in 1..NumMethods} |-> TRUE]
    /\ chart_index \in {Some(v) : v \in IncomingCursors}
    /\ pc = "draw"
    /\ datasets = <<>>
    /\ last_balances = <<>>
    /\ lowest_balance = 0
    /\ highest_balance = 0
    /\ date_labels = <<>>
    /\ current_axis = 0
    /\ checking_date = DefaultNextDate
    /\ to_add_again = FALSE
    /\ data_num = 0
    /\ to_loop = None
    /\ labels = <<>>
    /\ final_dataset = <<>>
    /\ x_bounds = <<0, 0>>
    /\ y_bounds = <<0, 0>>
    /\ mode_selection_tab = 0
    /\ FreshForms

SpecLeftover == InitLeftover /\ [][NextAnim]_vars /\ WF_vars(NextAnim)

\* C34: for every non-empty scope and every incoming cursor Some(v), v >= 0,
\* repeated draws with no reset reach cursor None after finitely many draws
\* (a draw that ends in the panic of C6 ends the redraws as well).
C34_ReachesNone == NonEmpty => <>(~chart_index.some \/ pc = "panic")


\* C35: in every draw of a non-empty ledger, partial or full, the second
\* date label is the date of the last point emitted: first_date plus the
\* axis_x of the last point.
C35_LabelOfLastPoint ==
    (AfterDraw /\ NonEmpty) =>
        date_labels[2] = first_date + datasets[1][Len(datasets[1])][1]


\* C36: in every draw, the draw of an empty snapshot included, the x-axis
\* range given to the chart is [0, axis_x of the last point of the series],
\* so its upper bound is never below its lower bound.
C36_XRange ==
    AfterDraw =>
        /\ x_bounds = <<0, datasets[1][Len(datasets[1])][1]>>
        /\ x_bounds[1] <= x_bounds[2]


\* the values present in the rendered series of the draw, and 0
RenderedValues ==
    {0} \cup UNION {{final_dataset[d].data[i][2] : i \in 1..Len(final_dataset[d].data)} :
                       d \in 1..Len(final_dataset)}

\* C37: before padding, high is the maximum and low the minimum of 0 and the
\* values present in the rendered series of the draw; a balance overwritten
\* by coalescing, which is in no series, does not influence them.
C37_BoundsOfRendered ==
    AfterDraw =>
        /\ highest_balance = Max(RenderedValues)
        /\ lowest_balance = Min(RenderedValues)


\* the whole days of budget of a draw that left Some(r): ceil(total_days - r)
BudgetDays ==
    (total_loop * Scale - chart_index.val + Scale - 1) \div Scale

\* C38: when the cursor after the update is Some(r), every series has
\* exactly max(1, ceil(total_days - r)) points, at least 1 and at most
\* total_days, so without the point of the final date; when it is None,
\* every series has total_days + 1 points.
C38_PartialSize ==
    (AfterDraw /\ NonEmpty) =>
        \A m \in 1..NumMethods :
            IF chart_index.some
            THEN /\ Len(datasets[m]) = Max({1, BudgetDays})
                 /\ 1 <= Len(datasets[m]) /\ Len(datasets[m]) <= total_loop
                 /\ datasets[m][Len(datasets[m])][1] < total_loop
            ELSE Len(datasets[m]) = total_loop + 1


\* ------------------------------------------- the add-transaction forms
\* KeyCode of the key event: Enter, Esc, Backspace, Char(a), any other
KeyCodes == {"Enter", "Esc", "Backspace", "Char", "Tab"}
\* VerifyingOutput returned by the check of a field
VerifyingOutputs == {"Accepted", "Nothing", "NotAccepted"}

\* TxData::add_tx_status(status.to_string())
add_tx_status(data, status) == [data EXCEPT !.tx_status = Append(@, status)]
\* TxData::edit_date, edit_details, ...: a field of the form was edited
edit_field(data) == [data EXCEPT !.edited = TRUE]

\* a field with a check: Enter and Esc run the check, record its status and
\* move only if it is Accepted or Nothing
verify_and_move_ungated(next, code, status, tab, data) ==
    CASE code = "Enter" -> [tab |-> next, data |-> add_tx_status(data, status)]
      [] code = "Esc" -> [tab |-> "Nothing", data |-> add_tx_status(data, status)]
      [] code \in {"Backspace", "Char"} -> [tab |-> tab, data |-> edit_field(data)]
      [] OTHER -> [tab |-> tab, data |-> data]
verify_and_move(next, code, status, tab, data) ==
    CASE code = "Enter" ->
             [tab |-> IF status \in {"Accepted", "Nothing"} THEN next ELSE tab,
              data |-> add_tx_status(data, status)]
      [] code = "Esc" ->
             [tab |-> IF status \in {"Accepted", "Nothing"} THEN "Nothing" ELSE tab,
              data |-> add_tx_status(data, status)]
      [] code \in {"Backspace", "Char"} -> [tab |-> tab, data |-> edit_field(data)]
      [] OTHER -> [tab |-> tab, data |-> data]
\* a field without a check
plain_move(next, code, tab, data) ==
    CASE code = "Enter" -> [tab |-> next, data |-> data]
      [] code = "Esc" -> [tab |-> "Nothing", data |-> data]
      [] code \in {"Backspace", "Char"} -> [tab |-> tab, data |-> edit_field(data)]
      [] OTHER -> [tab |-> tab, data |-> data]

check_add_tx_date(code, status, tab, data) ==
    verify_and_move("Details", code, status, tab, data)
check_add_tx_method(code, status, tab, data) ==
    verify_and_move("Amount", code, status, tab, data)
check_add_tx_amount(code, status, tab, data) ==
    verify_and_move("TxType", code, status, tab, data)
check_add_tx_type(code, status, tab, data) ==
    verify_and_move("Tags", code, status, tab, data)
check_add_tx_details(code, tab, data) == plain_move("TxMethod", code, tab, data)
check_add_tx_tags(code, tab, data) == plain_move("Nothing", code, tab, data)

check_transfer_date(code, status, tab, data) ==
    verify_and_move("Details", code, status, tab, data)
check_transfer_details(code, tab, data) == plain_move("From", code, tab, data)
check_transfer_from(code, status, tab, data) ==
    verify_and_move("To", code, status, tab, data)
check_transfer_to(code, status, tab, data) ==
    verify_and_move("Amount", code, status, tab, data)
check_transfer_amount(code, status, tab, data) ==
    verify_and_move("Tags", code, status, tab, data)
check_transfer_tags(code, tab, data) == plain_move("Nothing", code, tab, data)

\* the handler ran on the page's form: add is the result for the
\* add-transaction form, tr for the transfer form; then the loop draws
on_form(code, add, tr) ==
    /\ key' = code
    /\ CASE page = "AddTx" ->
              /\ tx_tab' = add.tab
              /\ add_tx_data' = add.data
              /\ UNCHANGED <<transfer_tab, transfer_data>>
         [] page = "Transfer" ->
              /\ transfer_tab' = tr.tab
              /\ transfer_data' = tr.data
              /\ UNCHANGED <<tx_tab, add_tx_data>>
         [] OTHER -> UNCHANGED forms
    /\ Len(add_tx_data'.tx_status) + Len(transfer_data'.tx_status) <= MaxStatus
    /\ pc' = "draw"
    /\ UNCHANGED <<page, chart_modes, db_txs, db_balance, ledger, chart_index,
                   walk, frame>>

AddTxForm == [tab |-> tx_tab, data |-> add_tx_data]
TransferForm == [tab |-> transfer_tab, data |-> transfer_data]

handle_date ==
    /\ pc = "read"
    /\ \E code \in KeyCodes, status \in VerifyingOutputs :
        on_form(code, check_add_tx_date(code, status, tx_tab, add_tx_data),
                check_transfer_date(code, status, transfer_tab, transfer_data))
handle_details ==
    /\ pc = "read"
    /\ \E code \in KeyCodes :
        on_form(code, check_add_tx_details(code, tx_tab, add_tx_data),
                check_transfer_details(code, transfer_tab, transfer_data))
handle_tx_method ==
    /\ pc = "read"
    /\ \E code \in KeyCodes, status \in VerifyingOutputs :
        on_form(code, check_add_tx_method(code, status, tx_tab, add_tx_data),
                CASE transfer_tab = "From" ->
                         check_transfer_from(code, status, transfer_tab, transfer_data)
                  [] transfer_tab = "To" ->
                         check_transfer_to(code, status, transfer_tab, transfer_data)
                  [] OTHER -> TransferForm)
handle_amount ==
    /\ pc = "read"
    /\ \E code \in KeyCodes, status \in VerifyingOutputs :
        on_form(code, check_add_tx_amount(code, status, tx_tab, add_tx_data),
                check_transfer_amount(code, status, transfer_tab, transfer_data))
handle_tx_type ==
    /\ pc = "read"
    /\ \E code \in KeyCodes, status \in VerifyingOutputs :
        on_form(code, check_add_tx_type(code, status, tx_tab, add_tx_data), TransferForm)
handle_tags ==
    /\ pc = "read"
    /\ \E code \in KeyCodes :
        on_form(code, check_add_tx_tags(code, tx_tab, add_tx_data),
                check_transfer_tags(code, transfer_tab, transfer_data))

\* InputKeyHandler::handle_number_press: the keys 1..6 select a field
AddTxTabs == <<"Date", "Details", "TxMethod", "Amount", "TxType", "Tags">>
TransferTabs == <<"Date", "Details", "From", "To", "Amount", "Tags">>
handle_number_press ==
    /\ pc = "read"
    /\ \E k \in 1..6 :
        on_form("Char", [tab |-> AddTxTabs[k], data |-> add_tx_data],
                [tab |-> TransferTabs[k], data |-> transfer_data])

go_add_tx ==
    /\ pc = "read"
    /\ page' = "AddTx"
    /\ pc' = "draw"
    /\ UNCHANGED <<chart_modes, db_txs, db_balance, forms, key, ledger, chart_index,
                   walk, frame>>
go_transfer ==
    /\ pc = "read"
    /\ page' = "Transfer"
    /\ pc' = "draw"
    /\ UNCHANGED <<chart_modes, db_txs, db_balance, forms, key, ledger, chart_index,
                   walk, frame>>

go_summary ==
    /\ pc = "read"
    /\ page' = "Summary"
    /\ pc' = "draw"
    /\ UNCHANGED <<chart_modes, db_txs, db_balance, forms, key, ledger, chart_index,
                   walk, frame>>

\* the Home page with an empty store, waiting for a key
InitForms ==
    /\ page = "Home"
    /\ chart_modes = 0
    /\ db_txs = <<>>
    /\ db_balance = <<>>
    /\ all_txs = <<>>
    /\ all_balance = <<>>
    /\ chart_activated_methods = [n \in {all_tx_methods[i] : i \in 1..NumMethods} |-> TRUE]
    /\ chart_index = None
    /\ pc = "read"
    /\ datasets = <<>>
    /\ last_balances = <<>>
    /\ lowest_balance = 0
    /\ highest_balance = 0
    /\ date_labels = <<>>
    /\ current_axis = 0
    /\ checking_date = DefaultNextDate
    /\ to_add_again = FALSE
    /\ data_num = 0
    /\ to_loop = None
    /\ labels = <<>>
    /\ final_dataset = <<>>
    /\ x_bounds = <<0, 0>>
    /\ y_bounds = <<0, 0>>
    /\ mode_selection_tab = 0
    /\ FreshForms

NextForms ==
    \/ go_home
    \/ go_add_tx
    \/ go_transfer
    \/ go_summary
    \/ handle_number_press
    \/ handle_date
    \/ handle_details
    \/ handle_tx_method
    \/ handle_amount
    \/ handle_tx_type
    \/ handle_tags
    \/ draw_other
    \/ poll_key

SpecForms == InitForms /\ [][NextForms]_vars



\* ---------------------------------------------------------------- C39
\* the order of the add-transaction fields
NextField ==
    [Date |-> "Details", Details |-> "TxMethod", TxMethod |-> "Amount",
     Amount |-> "TxType", TxType |-> "Tags", Tags |-> "Nothing"]
\* Enter or Esc on the selected field `field` of the add-transaction page:
\* exactly one status text is recorded, nothing else of the data changes, and
\* the selected field moves (Enter: to the next field, Esc: to Nothing) when
\* the recorded status is Accepted or Nothing and stays when it is NotAccepted
C39_Selected(field) == page = "AddTx" /\ tx_tab = field /\ key' \in {"Enter", "Esc"}
C39_Gate(field) ==
        LET old == add_tx_data.tx_status
            new == add_tx_data'.tx_status
            status == new[Len(new)]
        IN  /\ Len(new) = Len(old) + 1
            /\ SubSeq(new, 1, Len(old)) = old
            /\ status \in VerifyingOutputs
            /\ add_tx_data'.edited = add_tx_data.edited
            /\ tx_tab' = IF status = "NotAccepted" THEN field
                         ELSE IF key' = "Enter" THEN NextField[field]
                         ELSE "Nothing"
C39_GatedStep ==
    /\ (C39_Selected("Date") /\ handle_date) => C39_Gate("Date")
    /\ (C39_Selected("TxMethod") /\ handle_tx_method) => C39_Gate("TxMethod")
    /\ (C39_Selected("Amount") /\ handle_amount) => C39_Gate("Amount")
    /\ (C39_Selected("TxType") /\ handle_tx_type) => C39_Gate("TxType")
\* C39: on the Date, TxMethod, Amount and TxType fields of the
\* add-transaction page, Enter moves the selected field to the next one in
\* the order Date, Details, TxMethod, Amount, TxType, Tags, Nothing and Esc
\* moves it to Nothing only when the field's check returns Accepted or
\* Nothing; on NotAccepted the selected field is unchanged; in all three
\* cases the status text of the check is recorded.
C39_FieldGating == [][C39_GatedStep]_vars
\* Enter on the Amount field was refused: the status is recorded and the
\* Amount field is still selected
C39_Witness ==
    /\ page = "AddTx"
    /\ pc = "draw"
    /\ key = "Enter"
    /\ tx_tab = "Amount"
    /\ add_tx_data.tx_status = <<"NotAccepted">>
\* Enter on the Amount field was accepted: the TxType field is selected
C39_WitnessAccepted ==
    /\ page = "AddTx"
    /\ pc = "draw"
    /\ key = "Enter"
    /\ tx_tab = "TxType"
    /\ add_tx_data.tx_status = <<"Accepted">>

\* ---------------------------------------------------------------- C40
C40_HomeStep ==
    go_home =>
        /\ page' = "Home"
        /\ UNCHANGED <<chart_modes, db_txs, db_balance, key, ledger, chart_index,
                       walk, frame>>
        /\ page = "AddTx" =>
              /\ add_tx_data' = TxDataNew
              /\ tx_tab' = "Nothing"
              /\ UNCHANGED <<transfer_tab, transfer_data>>
        /\ page = "Transfer" =>
              /\ transfer_data' = TxDataNew
              /\ transfer_tab' = "Nothing"
              /\ UNCHANGED <<tx_tab, add_tx_data>>
        /\ page \notin {"AddTx", "Transfer"} => UNCHANGED forms
\* C40: go_home always leaves the page at Home; from the AddTx page it also
\* replaces the add-transaction data with fresh data and sets the
\* add-transaction tab to Nothing, from the Transfer page it does the same
\* for the transfer data and tab, and from any other page it changes nothing
\* but the page.
C40_GoHome == [][C40_HomeStep]_vars
\* go_home ran on an add-transaction form that held edits and a status: the
\* page is Home with a fresh add-transaction form, the transfer form still
\* holds what was typed into it
C40_Witness ==
    /\ page = "Home"
    /\ pc = "draw"
    /\ key = "Enter"
    /\ add_tx_data = TxDataNew
    /\ tx_tab = "Nothing"
    /\ transfer_data.edited
    /\ transfer_tab = "Amount"

====
